---- MODULE Spec2Model ----
(***************************************************************************)
(* Model of mytftp.py, a TFTP client (RFC 1350 subset): one invocation     *)
(* performs one download (get) or one upload (put) over a UDP socket.      *)
(* Datagrams are sequences of bytes (0..255), built and taken apart the    *)
(* way the script does it (struct.pack, int.from_bytes, slices).           *)
(***************************************************************************)
EXTENDS Integers, Sequences, FiniteSets, TLC

(***************************************************************************)
(* Program constants (mytftp.py lines 9-25).                               *)
(***************************************************************************)
BLOCK_SIZE == 512
MAX_TRY == 3
RECV_BUFSIZE == 516

OP_RRQ == 1
OP_WRQ == 2
OP_DATA == 3
OP_ACK == 4
OP_ERROR == 5

\* OPCODE = {'RRQ': 1, 'WRQ': 2, 'DATA': 3, 'ACK': 4, 'ERROR': 5}
OPCODE == [RRQ |-> OP_RRQ, WRQ |-> OP_WRQ, DATA |-> OP_DATA, ACK |-> OP_ACK,
           ERROR |-> OP_ERROR]

\* ERROR_CODE.get(error_code, 'Unknown')
ErrorText(error_code) ==
    CASE error_code = 0 -> "Not defined."
      [] error_code = 1 -> "File not found."
      [] error_code = 2 -> "Access violation."
      [] error_code = 3 -> "Disk full."
      [] error_code = 4 -> "Illegal TFTP operation."
      [] error_code = 5 -> "Unknown transfer ID."
      [] error_code = 6 -> "File already exists."
      [] error_code = 7 -> "No such user."
      [] OTHER -> "Unknown"

\* DEFAULT_TRANSFER_MODE = 'octet', as code points
DEFAULT_TRANSFER_MODE == <<111, 99, 116, 101, 116>>

(***************************************************************************)
(* Bounds of the model.                                                    *)
(***************************************************************************)
\* datagrams the server delivers to the client in one run
MaxRecv == 3
\* characters in a file name or mode given to the request encoder
MaxNameLen == 2

(***************************************************************************)
(* Byte helpers: Python slices, int.from_bytes, struct.pack.               *)
(***************************************************************************)
Min(a, b) == IF a < b THEN a ELSE b

\* data[lo:hi] for 0 <= lo, 0 <= hi (Python clamps both ends)
Slice(data, lo, hi) == SubSeq(data, lo + 1, Min(hi, Len(data)))

\* data[lo:]
SliceFrom(data, lo) == SubSeq(data, lo + 1, Len(data))

\* int.from_bytes(bs, 'big'): unsigned, 0 for the empty string
RECURSIVE FromBytesBig(_)
FromBytesBig(bs) ==
    IF bs = <<>> THEN 0
    ELSE FromBytesBig(SubSeq(bs, 1, Len(bs) - 1)) * 256 + bs[Len(bs)]

\* struct.pack('>h', v): a SIGNED 16-bit big-endian field; struct.error
\* ("short format requires -32768 <= number <= 32767") outside the range
PackShortOk(v) == v >= -32768 /\ v <= 32767
PackShort(v) == <<((v + 65536) % 65536) \div 256, ((v + 65536) % 65536) % 256>>

\* struct.pack('B', v)
PackUByte(v) == <<v>>

\* struct.pack('<n>s', bs): exactly n bytes, bs truncated or zero-padded
PackString(n, bs) == [i \in 1..n |-> IF i <= Len(bs) THEN bs[i] ELSE 0]

\* bytes(s, 'utf-8') of one code point
Utf8Char(cp) ==
    IF cp < 128 THEN <<cp>>
    ELSE IF cp < 2048 THEN <<192 + (cp \div 64), 128 + (cp % 64)>>
    ELSE IF cp < 65536 THEN
        <<224 + (cp \div 4096), 128 + ((cp \div 64) % 64), 128 + (cp % 64)>>
    ELSE <<240 + (cp \div 262144), 128 + ((cp \div 4096) % 64),
           128 + ((cp \div 64) % 64), 128 + (cp % 64)>>

\* bytes(s, 'utf-8') of a string given as its code points
RECURSIVE Utf8(_)
Utf8(s) == IF s = <<>> THEN <<>> ELSE Utf8Char(Head(s)) \o Utf8(Tail(s))

(***************************************************************************)
(* Packet construction: send_rrq, send_wrq, send_ack, send_data.  Each     *)
(* yields [ok, bytes]: ok is FALSE when struct.pack raises struct.error.   *)
(***************************************************************************)
\* f'>h{len(filename)}sB{len(mode)}sB' packed with the UTF-8 bytes:
\* the counts are the lengths of the strings in characters
RequestBytes(opcode, filename, mode) ==
    PackShort(opcode) \o PackString(Len(filename), Utf8(filename))
        \o PackUByte(0) \o PackString(Len(mode), Utf8(mode)) \o PackUByte(0)

RrqPacket(filename, mode) ==
    [ok |-> TRUE, bytes |-> RequestBytes(OPCODE.RRQ, filename, mode)]

WrqPacket(filename, mode) ==
    [ok |-> TRUE, bytes |-> RequestBytes(OPCODE.WRQ, filename, mode)]

\* pack('>hh', OPCODE['ACK'], block_num)
AckPacket(block_num) ==
    [ok |-> PackShortOk(block_num),
     bytes |-> PackShort(OPCODE.ACK) \o PackShort(block_num)]

\* pack(f'>hh{len(data)}s', OPCODE['DATA'], block_num, data)
DataPacket(block_num, payload) ==
    [ok |-> PackShortOk(block_num),
     bytes |-> PackShort(OPCODE.DATA) \o PackShort(block_num)
                 \o PackString(Len(payload), payload)]

(***************************************************************************)
(* Packet inspection, as the receive paths do it.                          *)
(***************************************************************************)
\* int.from_bytes(data[:2], 'big')
OpcodeOf(data) == FromBytesBig(Slice(data, 0, 2))

\* int.from_bytes(data[2:4], 'big'): block number or error code
BlockOf(data) == FromBytesBig(Slice(data, 2, 4))

\* data[4:]
PayloadOf(data) == SliceFrom(data, 4)

\* sock.recvfrom(516): a longer datagram is cut to the buffer size
RecvFrom(wire) == Slice(wire, 0, RECV_BUFSIZE)

(***************************************************************************)
(* The environment: addresses, the local file, what the server may send.   *)
(***************************************************************************)
\* (server_ip, args.port): the well-known port the request goes to
WellKnownAddress == "server:69"

\* source addresses a reply may carry (the server's transfer ids)
ReplyAddresses == {"server:tid1", "server:tid2"}

\* args.filename, as code points ("f")
FileName == <<102>>

\* n bytes, all equal to b
Fill(n, b) == [i \in 1..n |-> b]

\* a local file of n bytes whose k-th 512-byte stretch holds the byte k
SourceBytes(n) == [i \in 1..n |-> ((i - 1) \div 512) + 1]

\* sizes of the local file uploaded by put
SourceSizes == {0, 1, 511, 512, 513}

\* wire form of a datagram a server can send: any bytes at all; these are
\* the ones the runs draw from, among them an oversized DATA and a DATA and
\* an ACK cut off after the first byte of the block number
WireData(block, payload) == <<0, 3, block \div 256, block % 256>> \o payload
WireAck(block) == <<0, 4, block \div 256, block % 256>>
WireError(code, msg) == <<0, 5, code \div 256, code % 256>> \o msg \o <<0>>

GetDatagrams ==
    { WireData(1, Fill(512, 17)), WireData(1, Fill(1, 18)),
      WireData(2, Fill(512, 33)), WireData(2, Fill(511, 34)),
      WireData(2, Fill(513, 35)), WireData(3, <<>>),
      WireData(40000, Fill(1, 99)),
      WireError(1, <<110, 111>>), WireAck(1), <<0, 3, 1>> }

VARIABLES
    pc,              \* where the script is
    operation,       \* args.operation: "get" or "put"
    filename,        \* args.filename, as code points
    mode,            \* the transfer mode, as code points
    file_exists,     \* os.path.exists(filename)
    file_open,       \* the file object is open
    file_bytes,      \* content of the local file
    file_pos,        \* read position of the file object (put)
    sock_open,       \* the UDP socket is open
    server_address,  \* where the next datagram is sent
    reply_from,      \* source address of the first datagram received
    data,            \* the datagram last received
    try_count,       \* loop variable of the current retry loop
    expected_block,  \* get: next block to accept
    block_number,    \* put: block being sent
    file_block,      \* put: payload of the block being sent
    sent,            \* every datagram handed to sock.sendto: [pkt, to]
    rcvd,            \* every result of sock.recvfrom: the bytes, or Timeout
    printed,         \* lines written to standard output: [msg, arg]
    exit_code        \* process exit status, -1 while running

vars == <<pc, operation, filename, mode, reply_from, file_exists,
          file_open, file_bytes, file_pos, sock_open, server_address, data,
          try_count, expected_block, block_number, file_block, sent, rcvd,
          printed, exit_code>>

\* reply_from before any datagram has been received
NoAddress == "none"

\* the entry of rcvd for a recvfrom that raised socket.timeout
Timeout == <<-1>>

Delivered == Len(SelectSeq(rcvd, LAMBDA r : r # Timeout))

Say(msg, arg) == Append(printed, [msg |-> msg, arg |-> arg])

SendTo(pkt, address) == Append(sent, [pkt |-> pkt, to |-> address])

(***************************************************************************)
(* Start: argument parsing, DNS lookup and socket creation have happened.  *)
(***************************************************************************)
Init ==
    /\ pc = "start"
    /\ operation \in {"get", "put"}
    /\ filename = FileName
    /\ mode = DEFAULT_TRANSFER_MODE
    /\ file_exists \in BOOLEAN
    /\ file_open = FALSE
    /\ file_bytes \in IF file_exists
                      THEN {SourceBytes(n) : n \in SourceSizes}
                      ELSE {<<>>}
    /\ file_pos = 0
    /\ sock_open = TRUE
    /\ server_address = WellKnownAddress
    /\ reply_from = NoAddress
    /\ data = <<>>
    /\ try_count = 0
    /\ expected_block = 0
    /\ block_number = 0
    /\ file_block = <<>>
    /\ sent = <<>>
    /\ rcvd = <<>>
    /\ printed = <<>>
    /\ exit_code = -1

(***************************************************************************)
(* get: lines 91-156.                                                      *)
(***************************************************************************)
\* lines 92-94: the destination already exists locally
GetExistsLocally ==
    /\ pc = "start" /\ operation = "get" /\ file_exists
    /\ printed' = Say("Error: already exists locally.", 0)
    /\ pc' = "exit" /\ exit_code' = 1
    /\ UNCHANGED <<operation, filename, mode, reply_from,
                   file_exists, file_open, file_bytes, file_pos,
                   sock_open, server_address, data, try_count,
                   expected_block, block_number, file_block, sent, rcvd>>

\* lines 96-97: open(filename, 'wb') creates the empty destination
GetOpen ==
    /\ pc = "start" /\ operation = "get" /\ ~file_exists
    /\ file_exists' = TRUE /\ file_open' = TRUE /\ file_bytes' = <<>>
    /\ try_count' = 0
    /\ pc' = "rrq_send"
    /\ UNCHANGED <<operation, filename, mode, reply_from,
                   file_pos, sock_open, server_address, data,
                   expected_block, block_number, file_block, sent, rcvd,
                   printed, exit_code>>

\* lines 98-100: open raised IOError
GetOpenFails ==
    /\ pc = "start" /\ operation = "get" /\ ~file_exists
    /\ printed' = Say("Error opening file", 0)
    /\ pc' = "exit" /\ exit_code' = 1
    /\ UNCHANGED <<operation, filename, mode, reply_from,
                   file_exists, file_open, file_bytes, file_pos,
                   sock_open, server_address, data, try_count,
                   expected_block, block_number, file_block, sent, rcvd>>

\* variant: one pass too many
MoreTries_OneMore(count) == count < MAX_TRY

\* for try_count in range(MAX_TRY): another pass follows pass try_count
MoreTries(count) == count + 1 < MAX_TRY

\* line 105: send_rrq(sock, server_address, filename, mode)
GetSendRrq ==
    /\ pc = "rrq_send"
    /\ sent' = SendTo(RrqPacket(filename, mode).bytes,
                      server_address)
    /\ pc' = "rrq_wait"
    /\ UNCHANGED <<operation, filename, mode, reply_from,
                   file_exists, file_open, file_bytes, file_pos,
                   sock_open, server_address, data, try_count,
                   expected_block, block_number, file_block, rcvd, printed,
                   exit_code>>

\* lines 107-110, 121: the first datagram, whatever it is, ends the retry
\* loop; its source becomes the peer address
GetFirstReply(wire, from) ==
    /\ pc = "rrq_wait" /\ Delivered < MaxRecv
    /\ data' = RecvFrom(wire)
    /\ rcvd' = Append(rcvd, RecvFrom(wire))
    /\ server_address' = from
    /\ reply_from' = from
    /\ expected_block' = 1
    /\ pc' = "process"
    /\ UNCHANGED <<operation, filename, mode,
                   file_exists, file_open, file_bytes, file_pos,
                   sock_open, try_count, block_number, file_block, sent,
                   printed, exit_code>>

\* lines 111-118: socket.timeout in the RRQ loop; after the last try the
\* destination is closed and removed and the script exits with status 1
GetFirstTimeout ==
    /\ pc = "rrq_wait"
    /\ rcvd' = Append(rcvd, Timeout)
    /\ IF MoreTries(try_count)
       THEN /\ printed' = Say("Timeout... Retrying", try_count + 1)
            /\ try_count' = try_count + 1
            /\ pc' = "rrq_send"
            /\ UNCHANGED <<file_exists, file_open, file_bytes, exit_code>>
       ELSE /\ printed' = Append(Say("Timeout... Retrying", try_count + 1),
                                 [msg |-> "Error: Server not responding.",
                                  arg |-> 0])
            /\ file_open' = FALSE
            /\ file_exists' = FALSE /\ file_bytes' = <<>>
            /\ pc' = "exit" /\ exit_code' = 1
            /\ UNCHANGED try_count
    /\ UNCHANGED <<operation, filename, mode, reply_from,
                   file_pos, sock_open, server_address, data,
                   expected_block, block_number, file_block, sent>>

\* variant: a block ahead of the expected one is taken too
InSequence_AcceptsAhead(block, expected) == block >= expected

\* line 127: the DATA block is the one waited for
InSequence(block, expected) == block = expected

\* variant: a full block ends the download too
IsLastBlock_Inclusive(file_data) == Len(file_data) <= BLOCK_SIZE

\* line 133: a payload shorter than a full block ends the download
IsLastBlock(file_data) == Len(file_data) < BLOCK_SIZE

\* variant: the previous ACK is repeated
OutOfSequenceAck_Previous(block, expected) == expected - 1

\* line 138: the block number acknowledged for a DATA out of sequence
OutOfSequenceAck(block, expected) == block

\* variant: the first two bytes are taken for the code
ReportedErrorCode_Opcode(d) == OpcodeOf(d)

\* line 141: the error code reported for an ERROR packet
ReportedErrorCode(d) == BlockOf(d)

\* lines 123-147 (and 156, 231 after a break): one pass over the datagram
\* in data.  An uncaught struct.error from send_ack ends the script with
\* a traceback and status 1, nothing closed.
GetProcess ==
    /\ pc = "process"
    /\ LET opcode == OpcodeOf(data)
           block == BlockOf(data)
           file_data == PayloadOf(data)
       IN
       IF opcode = OPCODE.DATA /\ InSequence(block, expected_block) THEN
           /\ file_bytes' = file_bytes \o file_data
           /\ IF ~AckPacket(block).ok THEN
                  /\ printed' = Say("Traceback: struct.error", block)
                  /\ pc' = "exit" /\ exit_code' = 1
                  /\ UNCHANGED <<sent, expected_block, file_open, sock_open>>
              ELSE
                  /\ sent' = SendTo(AckPacket(block).bytes, server_address)
                  /\ expected_block' = expected_block + 1
                  /\ IF IsLastBlock(file_data) THEN
                         /\ printed' = Say("Download completed.", 0)
                         /\ file_open' = FALSE /\ sock_open' = FALSE
                         /\ pc' = "exit" /\ exit_code' = 0
                     ELSE
                         /\ pc' = "recv_next"
                         /\ UNCHANGED <<printed, file_open, sock_open,
                                        exit_code>>
           /\ UNCHANGED file_exists
       ELSE IF opcode = OPCODE.DATA THEN
           /\ LET ack == AckPacket(OutOfSequenceAck(block, expected_block))
              IN IF ~ack.ok THEN
                     /\ printed' = Say("Traceback: struct.error", block)
                     /\ pc' = "exit" /\ exit_code' = 1
                     /\ UNCHANGED sent
                 ELSE
                     /\ sent' = SendTo(ack.bytes, server_address)
                     /\ pc' = "recv_next"
                     /\ UNCHANGED <<printed, exit_code>>
           /\ UNCHANGED <<file_bytes, expected_block, file_open, sock_open,
                          file_exists>>
       ELSE IF opcode = OPCODE.ERROR THEN
           /\ printed' = Say(ErrorText(ReportedErrorCode(data)),
                             ReportedErrorCode(data))
           /\ file_open' = FALSE
           /\ file_exists' = FALSE /\ file_bytes' = <<>>
           /\ pc' = "exit" /\ exit_code' = 1
           /\ UNCHANGED <<sent, expected_block, sock_open>>
       ELSE
           /\ pc' = "recv_next"
           /\ UNCHANGED <<file_bytes, sent, expected_block, printed,
                          file_open, sock_open, file_exists, exit_code>>
    /\ UNCHANGED <<operation, filename, mode, reply_from,
                   file_pos, server_address, data, try_count,
                   block_number, file_block, rcvd>>

\* variant: the source of every datagram becomes the peer address
GetRecvNext_TracksSource(wire, from) ==
    /\ pc = "recv_next" /\ Delivered < MaxRecv
    /\ data' = RecvFrom(wire)
    /\ rcvd' = Append(rcvd, RecvFrom(wire))
    /\ server_address' = from
    /\ pc' = "process"
    /\ UNCHANGED <<operation, filename, mode, reply_from,
                   file_exists, file_open, file_bytes, file_pos,
                   sock_open, try_count, expected_block,
                   block_number, file_block, sent, printed, exit_code>>

\* line 151: the next datagram; its source address is dropped
GetRecvNext(wire, from) ==
    /\ pc = "recv_next" /\ Delivered < MaxRecv
    /\ data' = RecvFrom(wire)
    /\ rcvd' = Append(rcvd, RecvFrom(wire))
    /\ pc' = "process"
    /\ UNCHANGED <<operation, filename, mode, reply_from,
                   file_exists, file_open, file_bytes, file_pos,
                   sock_open, server_address, try_count, expected_block,
                   block_number, file_block, sent, printed, exit_code>>

\* variant: the timeout in the data loop cleans up like a failure
GetRecvTimeout_Cleanup ==
    /\ pc = "recv_next"
    /\ rcvd' = Append(rcvd, Timeout)
    /\ printed' = Say("Timeout waiting for data. Exiting.", 0)
    /\ file_open' = FALSE /\ sock_open' = FALSE
    /\ file_exists' = FALSE /\ file_bytes' = <<>>
    /\ pc' = "exit" /\ exit_code' = 1
    /\ UNCHANGED <<operation, filename, mode, reply_from, file_pos,
                   server_address, data, try_count, expected_block,
                   block_number, file_block, sent>>

\* lines 152-156, 231: socket.timeout in the data loop leaves the loop,
\* closes the file and the socket, and the script ends with status 0
GetRecvTimeout ==
    /\ pc = "recv_next"
    /\ rcvd' = Append(rcvd, Timeout)
    /\ printed' = Say("Timeout waiting for data. Exiting.", 0)
    /\ file_open' = FALSE /\ sock_open' = FALSE
    /\ pc' = "exit" /\ exit_code' = 0
    /\ UNCHANGED <<operation, filename, mode, reply_from,
                   file_exists, file_bytes, file_pos,
                   server_address, data, try_count, expected_block,
                   block_number, file_block, sent>>

GetNext ==
    \/ GetExistsLocally
    \/ GetOpen
    \/ GetOpenFails
    \/ GetSendRrq
    \/ \E wire \in GetDatagrams, from \in ReplyAddresses :
           GetFirstReply(wire, from)
    \/ GetFirstTimeout
    \/ GetProcess
    \/ \E wire \in GetDatagrams, from \in ReplyAddresses :
           GetRecvNext(wire, from)
    \/ GetRecvTimeout

(***************************************************************************)
(* put: lines 161-229.                                                     *)
(***************************************************************************)
PutDatagrams ==
    { WireAck(0), WireAck(1), WireAck(2),
      WireError(2, <<110, 111>>), WireData(1, <<>>), <<0, 4, 1>> }

\* lines 162-164: nothing to upload
PutNotFound ==
    /\ pc = "start" /\ operation = "put" /\ ~file_exists
    /\ printed' = Say("Error: File not found.", 0)
    /\ pc' = "exit" /\ exit_code' = 1
    /\ UNCHANGED <<operation, filename, mode, reply_from,
                   file_exists, file_open, file_bytes, file_pos,
                   sock_open, server_address, data, try_count,
                   expected_block, block_number, file_block, sent, rcvd>>

\* lines 166-167: open(filename, 'rb')
PutOpen ==
    /\ pc = "start" /\ operation = "put" /\ file_exists
    /\ file_open' = TRUE /\ file_pos' = 0
    /\ try_count' = 0
    /\ pc' = "wrq_send"
    /\ UNCHANGED <<operation, filename, mode, reply_from,
                   file_exists, file_bytes,
                   sock_open,
                   server_address, data, expected_block, block_number,
                   file_block, sent, rcvd, printed, exit_code>>

\* lines 168-170: open raised IOError
PutOpenFails ==
    /\ pc = "start" /\ operation = "put" /\ file_exists
    /\ printed' = Say("Error opening file", 0)
    /\ pc' = "exit" /\ exit_code' = 1
    /\ UNCHANGED <<operation, filename, mode, reply_from,
                   file_exists, file_open, file_bytes, file_pos,
                   sock_open, server_address, data, try_count,
                   expected_block, block_number, file_block, sent, rcvd>>

\* line 175: send_wrq(sock, server_address, filename, mode)
PutSendWrq ==
    /\ pc = "wrq_send"
    /\ sent' = SendTo(WrqPacket(filename, mode).bytes,
                      server_address)
    /\ pc' = "wrq_wait"
    /\ UNCHANGED <<operation, filename, mode, reply_from,
                   file_exists, file_open, file_bytes, file_pos,
                   sock_open, server_address, data, try_count,
                   expected_block, block_number, file_block, rcvd, printed,
                   exit_code>>

IsAck0_AnyAck(d) == OpcodeOf(d) = OPCODE.ACK

\* line 181: the reply that opens the upload
IsAck0(d) == OpcodeOf(d) = OPCODE.ACK /\ BlockOf(d) = 0

\* lines 177-187, 191-196: a datagram in the WRQ loop.  Its source becomes
\* the peer address whatever it holds; ACK 0 starts the data loop, ERROR
\* exits at once, anything else uses up the try.
PutHandshakeReply(wire, from) ==
    /\ pc = "wrq_wait" /\ Delivered < MaxRecv
    /\ data' = RecvFrom(wire)
    /\ rcvd' = Append(rcvd, RecvFrom(wire))
    /\ server_address' = from
    /\ reply_from' = IF reply_from = NoAddress THEN from ELSE reply_from
    /\ IF IsAck0(RecvFrom(wire)) THEN
           /\ block_number' = 1
           /\ pc' = "read_block"
           /\ UNCHANGED <<try_count, printed, exit_code>>
       ELSE IF OpcodeOf(RecvFrom(wire)) = OPCODE.ERROR THEN
           /\ printed' = Say(ErrorText(BlockOf(RecvFrom(wire))),
                             BlockOf(RecvFrom(wire)))
           /\ pc' = "exit" /\ exit_code' = 1
           /\ UNCHANGED <<try_count, block_number>>
       ELSE IF MoreTries(try_count) THEN
           /\ try_count' = try_count + 1
           /\ pc' = "wrq_send"
           /\ UNCHANGED <<printed, block_number, exit_code>>
       ELSE
           /\ printed' =
                  Say("Error: Server not responding or Protocol Error.", 0)
           /\ pc' = "exit" /\ exit_code' = 1
           /\ UNCHANGED <<try_count, block_number>>
    /\ UNCHANGED <<operation, filename, mode,
                   file_exists, file_open, file_bytes, file_pos,
                   sock_open, expected_block, file_block, sent>>

\* lines 188-193: socket.timeout in the WRQ loop
PutHandshakeTimeout ==
    /\ pc = "wrq_wait"
    /\ rcvd' = Append(rcvd, Timeout)
    /\ IF MoreTries(try_count)
       THEN /\ printed' = Say("Timeout... Retrying", try_count + 1)
            /\ try_count' = try_count + 1
            /\ pc' = "wrq_send"
            /\ UNCHANGED exit_code
       ELSE /\ printed' =
                Append(Say("Timeout... Retrying", try_count + 1),
                       [msg |->
                            "Error: Server not responding or Protocol Error.",
                        arg |-> 0])
            /\ pc' = "exit" /\ exit_code' = 1
            /\ UNCHANGED try_count
    /\ UNCHANGED <<operation, filename, mode, reply_from,
                   file_exists, file_open, file_bytes, file_pos,
                   sock_open, server_address, data, expected_block,
                   block_number, file_block, sent>>

\* file.read(BLOCK_SIZE) at position pos
ReadBlock(bytes, pos) == Slice(bytes, pos, pos + BLOCK_SIZE)

\* lines 198-201: read the next block and start its retry loop
PutReadBlock ==
    /\ pc = "read_block"
    /\ file_block' = ReadBlock(file_bytes, file_pos)
    /\ file_pos' = file_pos + Len(ReadBlock(file_bytes, file_pos))
    /\ try_count' = 0
    /\ pc' = "data_send"
    /\ UNCHANGED <<operation, filename, mode, reply_from,
                   file_exists, file_open, file_bytes, sock_open,
                   server_address, data, expected_block, block_number, sent,
                   rcvd, printed, exit_code>>

\* line 202: send_data(sock, server_address, block_number, file_block);
\* an uncaught struct.error ends the script, nothing closed
PutSendData ==
    /\ pc = "data_send"
    /\ IF DataPacket(block_number, file_block).ok THEN
           /\ sent' = SendTo(DataPacket(block_number, file_block).bytes,
                             server_address)
           /\ pc' = "data_wait"
           /\ UNCHANGED <<printed, exit_code>>
       ELSE
           /\ printed' = Say("Traceback: struct.error", block_number)
           /\ pc' = "exit" /\ exit_code' = 1
           /\ UNCHANGED sent
    /\ UNCHANGED <<operation, filename, mode, reply_from,
                   file_exists, file_open, file_bytes, file_pos,
                   sock_open, server_address, data, try_count,
                   expected_block, block_number, file_block, rcvd>>

\* variant: any ACK accepts the block
AcksBlock_AnyAck(d, b) == OpcodeOf(d) = OPCODE.ACK

\* lines 208-209: the reply that accepts block number b
AcksBlock(d, b) == OpcodeOf(d) = OPCODE.ACK /\ BlockOf(d) = b

\* variant: a full block ends the upload too
PutIsLastBlock_Inclusive(block) == Len(block) <= BLOCK_SIZE

\* line 225: the block just acknowledged was the last one
PutIsLastBlock(block) == Len(block) < BLOCK_SIZE

\* lines 220-222, 229, 231: the retry loop of a block ran out
PutGiveUp ==
    /\ file_open' = FALSE /\ sock_open' = FALSE
    /\ pc' = "exit" /\ exit_code' = 0
    /\ UNCHANGED <<try_count, block_number>>

\* lines 205-216, 220-231: a datagram in the retry loop of a block
PutDataReply(wire, from) ==
    /\ pc = "data_wait" /\ Delivered < MaxRecv
    /\ data' = RecvFrom(wire)
    /\ rcvd' = Append(rcvd, RecvFrom(wire))
    /\ IF AcksBlock(RecvFrom(wire), block_number) THEN
           /\ block_number' = block_number + 1
           /\ IF PutIsLastBlock(file_block) THEN
                  /\ printed' = Say("Upload completed.", 0)
                  /\ file_open' = FALSE /\ sock_open' = FALSE
                  /\ pc' = "exit" /\ exit_code' = 0
              ELSE
                  /\ pc' = "read_block"
                  /\ UNCHANGED <<printed, file_open, sock_open, exit_code>>
           /\ UNCHANGED try_count
       ELSE IF OpcodeOf(RecvFrom(wire)) = OPCODE.ERROR THEN
           /\ printed' = Say(ErrorText(BlockOf(RecvFrom(wire))),
                             BlockOf(RecvFrom(wire)))
           /\ file_open' = FALSE
           /\ pc' = "exit" /\ exit_code' = 1
           /\ UNCHANGED <<try_count, block_number, sock_open>>
       ELSE IF MoreTries(try_count) THEN
           /\ try_count' = try_count + 1
           /\ pc' = "data_send"
           /\ UNCHANGED <<printed, block_number, file_open, sock_open,
                          exit_code>>
       ELSE
           /\ printed' = Say("Transfer failed: Max retries exceeded.", 0)
           /\ PutGiveUp
    /\ UNCHANGED <<operation, filename, mode, reply_from,
                   file_exists, file_bytes, file_pos,
                   server_address, expected_block, file_block, sent>>

\* lines 217-222, 229, 231: socket.timeout while waiting for the ACK
PutDataTimeout ==
    /\ pc = "data_wait"
    /\ rcvd' = Append(rcvd, Timeout)
    /\ IF MoreTries(try_count)
       THEN /\ printed' = Say("Timeout waiting for ACK. Retrying...",
                              block_number)
            /\ try_count' = try_count + 1
            /\ pc' = "data_send"
            /\ UNCHANGED <<block_number, file_open, sock_open, exit_code>>
       ELSE /\ printed' =
                Append(Say("Timeout waiting for ACK. Retrying...",
                           block_number),
                       [msg |-> "Transfer failed: Max retries exceeded.",
                        arg |-> 0])
            /\ PutGiveUp
    /\ UNCHANGED <<operation, filename, mode, reply_from,
                   file_exists, file_bytes, file_pos,
                   server_address, data, expected_block, file_block, sent>>

PutNext ==
    \/ PutNotFound
    \/ PutOpen
    \/ PutOpenFails
    \/ PutSendWrq
    \/ \E wire \in PutDatagrams, from \in ReplyAddresses :
           PutHandshakeReply(wire, from)
    \/ PutHandshakeTimeout
    \/ PutReadBlock
    \/ PutSendData
    \/ \E wire \in PutDatagrams, from \in ReplyAddresses :
           PutDataReply(wire, from)
    \/ PutDataTimeout

Next == GetNext \/ PutNext

Spec == Init /\ [][Next]_vars

(***************************************************************************)
(* The packet builders on their own: one call of send_ack, send_data,      *)
(* send_rrq or send_wrq with arguments drawn from the sets below.          *)
(***************************************************************************)
\* characters of the names tried: a, e-acute (2 bytes), euro sign (3 bytes)
NameChars == {97, 233, 8364}

Names == UNION {[1..n -> NameChars] : n \in 0..MaxNameLen}

SendInit ==
    /\ pc = "call"
    /\ operation = "get"
    /\ \/ block_number \in 0..65535 /\ filename = FileName
       \/ block_number = 0 /\ filename \in Names
    /\ mode = DEFAULT_TRANSFER_MODE
    /\ file_block = <<7, 8>>
    /\ file_exists = FALSE /\ file_open = FALSE /\ file_bytes = <<>>
    /\ file_pos = 0 /\ sock_open = TRUE
    /\ server_address = WellKnownAddress /\ reply_from = NoAddress
    /\ data = <<>> /\ try_count = 0 /\ expected_block = 0
    /\ sent = <<>> /\ rcvd = <<>> /\ printed = <<>> /\ exit_code = -1

\* sock.sendto(pkt.bytes, address), or the struct.error pack raised
Call(pkt) ==
    /\ pc = "call"
    /\ IF pkt.ok
       THEN /\ sent' = SendTo(pkt.bytes, server_address)
            /\ pc' = "returned"
            /\ UNCHANGED printed
       ELSE /\ printed' = Say("Traceback: struct.error", block_number)
            /\ pc' = "raised"
            /\ UNCHANGED sent
    /\ UNCHANGED <<operation, filename, mode, reply_from,
                   file_exists, file_open,
                   file_bytes, file_pos, sock_open, server_address, data,
                   try_count, expected_block, block_number, file_block,
                   rcvd, exit_code>>

CallSendAck == Call(AckPacket(block_number))
CallSendData == Call(DataPacket(block_number, file_block))
CallSendRrq == Call(RrqPacket(filename, mode))
CallSendWrq == Call(WrqPacket(filename, mode))

SendNext == CallSendAck \/ CallSendData \/ CallSendRrq \/ CallSendWrq

SendSpec == SendInit /\ [][SendNext]_vars

(***************************************************************************)
(* Vocabulary of the properties.                                           *)
(***************************************************************************)
Printed(msg) == \E i \in 1..Len(printed) : printed[i].msg = msg

Exited == pc = "exit"

\* terminal outcomes, told apart by what the script printed
GetDone == operation = "get" /\ Exited /\ Printed("Download completed.")
GetTimedOutMidTransfer ==
    operation = "get" /\ Exited
        /\ Printed("Timeout waiting for data. Exiting.")
GetServerUnresponsive ==
    operation = "get" /\ Exited /\ Printed("Error: Server not responding.")
PutDone == operation = "put" /\ Exited /\ Printed("Upload completed.")

\* the datagrams of one opcode among those sent, in order
SentWithOpcode(op) ==
    SelectSeq(sent, LAMBDA m : m.pkt[1] = 0 /\ m.pkt[2] = op)

\* ACK(k) was sent to the peer address
AckSent(k) ==
    \E i \in 1..Len(sent) :
        sent[i].pkt = WireAck(k) /\ sent[i].to = server_address

RECURSIVE Concat(_)
Concat(chunks) ==
    IF chunks = <<>> THEN <<>> ELSE Head(chunks) \o Concat(Tail(chunks))

\* block number (or error code) and payload length of a datagram d, with
\* the bytes a cut-off datagram lacks read as absent
WireBlock(d) ==
    IF Len(d) >= 4 THEN d[3] * 256 + d[4]
    ELSE IF Len(d) = 3 THEN d[3] ELSE 0
WirePayloadLen(d) == IF Len(d) > 4 THEN Len(d) - 4 ELSE 0

IsData(d, k) == Len(d) >= 2 /\ d[1] = 0 /\ d[2] = 3 /\ WireBlock(d) = k
IsAck(d, k) == Len(d) >= 2 /\ d[1] = 0 /\ d[2] = 4 /\ WireBlock(d) = k

\* the payloads of DATA k, k+1, ... as they come in that order in log,
\* up to and including the first one shorter than a full block
RECURSIVE InOrderPayloads(_, _)
InOrderPayloads(log, k) ==
    IF log = <<>> THEN <<>>
    ELSE IF IsData(Head(log), k) THEN
        LET payload == SubSeq(Head(log), 5, Len(Head(log)))
        IN <<payload>> \o (IF Len(payload) < 512 THEN <<>>
                           ELSE InOrderPayloads(Tail(log), k + 1))
    ELSE InOrderPayloads(Tail(log), k)

\* C1: when a download ends in Done, the local file holds exactly the
\* payloads of DATA 1..n in block order, each once, where n is the first
\* in-sequence block shorter than 512 bytes (all before it being full), and
\* ACK(k) was sent for every k in 1..n, whatever else the server sent.
C1_DoneFileIsBlocksInOrder ==
    GetDone =>
        LET chunks == InOrderPayloads(rcvd, 1)
            n == Len(chunks)
        IN /\ n >= 1
           /\ Len(chunks[n]) < 512
           /\ \A k \in 1..(n - 1) : Len(chunks[k]) = 512
           /\ file_exists /\ file_bytes = Concat(chunks)
           /\ \A k \in 1..n : AckSent(k)
           /\ expected_block = n + 1

\* a download that ended Done after a duplicate of block 1 and two blocks
C1_Witness ==
    /\ GetDone
    /\ Len(rcvd) = 3 /\ IsData(rcvd[1], 1) /\ IsData(rcvd[2], 1)
    /\ IsData(rcvd[3], 2)
    /\ Len(file_bytes) = 512 + 511

\* the script is about to look at a DATA datagram of the download
ProcessingData ==
    /\ operation = "get" /\ pc = "process"
    /\ Len(data) >= 2 /\ data[1] = 0 /\ data[2] = 3

\* C2 as claimed: processing a DATA datagram with a payload of exactly 512
\* bytes never ends the download in success in that step, and processing a
\* DATA datagram with a payload of L < 512 bytes always ends the download.
C2_AsClaimed ==
    [][ProcessingData =>
           /\ WirePayloadLen(data) = 512 => ~GetDone'
           /\ WirePayloadLen(data) < 512 => Exited']_vars

\* C2 amended: processing a DATA datagram with a payload of exactly 512
\* bytes never ends the download in success in that step, and processing a
\* DATA datagram whose block number is the expected one and whose payload
\* is L < 512 bytes always ends the download in that step (in Done whenever
\* the block number is at most 32767).
C2_ShortInSequenceBlockEnds ==
    [][ProcessingData =>
           /\ WirePayloadLen(data) = 512 => ~GetDone'
           /\ (WirePayloadLen(data) < 512
                   /\ WireBlock(data) = expected_block) =>
                  /\ Exited'
                  /\ WireBlock(data) <= 32767 => GetDone']_vars

\* Done after two full blocks and an empty third one: the full blocks did
\* not end the download, the block of length 0 did
C2_Witness ==
    /\ GetDone
    /\ Len(rcvd) = 3 /\ Len(file_bytes) = 1024
    /\ IsData(rcvd[3], 3) /\ WirePayloadLen(rcvd[3]) = 0

\* C3: a DATA datagram whose block number was already acknowledged
\* (block < expected block) makes the client send ACK for the received
\* block number and leaves the expected block and the file unchanged.
C3_DuplicateDataReAcked ==
    [][(ProcessingData /\ WireBlock(data) < expected_block) =>
           /\ sent' = Append(sent, [pkt |-> WireAck(WireBlock(data)),
                                    to |-> server_address])
           /\ expected_block' = expected_block
           /\ file_bytes' = file_bytes
           /\ file_exists' = file_exists]_vars

\* blocks 1 and 2 were accepted, then block 1 came again and was
\* acknowledged again
C3_Witness ==
    /\ operation = "get" /\ pc = "recv_next"
    /\ expected_block = 3
    /\ Len(rcvd) = 3 /\ IsData(rcvd[3], 1)
    /\ Len(sent) >= 3 /\ sent[Len(sent)].pkt = WireAck(1)
    /\ Len(file_bytes) = 1024

\* the DATA datagrams an upload of bytes has to send: blocks 1..B with
\* B = floor(N / 512) + 1, the last one holding the N mod 512 bytes left
BlocksOf(bytes) ==
    [k \in 1..((Len(bytes) \div 512) + 1) |->
        WireData(k, SubSeq(bytes, 512 * (k - 1) + 1,
                           Min(512 * k, Len(bytes))))]

\* seq without the repetitions of an element right after itself
RECURSIVE Distinct(_)
Distinct(seq) ==
    IF Len(seq) <= 1 THEN seq
    ELSE IF seq[1] = seq[2] THEN Distinct(Tail(seq))
    ELSE <<seq[1]>> \o Distinct(Tail(seq))

DataSent == [i \in 1..Len(SentWithOpcode(3)) |-> SentWithOpcode(3)[i].pkt]

\* every receive of the upload returned the ACK of the packet just sent
EveryPacketAcked ==
    rcvd = [i \in 1..Len(rcvd) |-> WireAck(i - 1)]

\* C4: an upload of N bytes that ends Done has sent the distinct DATA
\* blocks 1..floor(N/512)+1 in increasing order, full blocks first and the
\* N mod 512 remaining bytes (none when N is a multiple of 512) last, each
\* exactly once when the server acknowledged every packet, and its last
\* receive returned the ACK of the last block.
C4_UploadSendsAllBlocks ==
    PutDone =>
        /\ Distinct(DataSent) = BlocksOf(file_bytes)
        /\ IsAck(rcvd[Len(rcvd)], Len(BlocksOf(file_bytes)))
        /\ EveryPacketAcked => DataSent = BlocksOf(file_bytes)
        /\ block_number = Len(BlocksOf(file_bytes)) + 1

\* a file of exactly 512 bytes went up as a full block and an empty one
C4_Witness ==
    /\ PutDone /\ Len(file_bytes) = 512 /\ EveryPacketAcked
    /\ Len(DataSent) = 2 /\ Len(DataSent[1]) = 516 /\ Len(DataSent[2]) = 4

OnlyTimeouts == rcvd # <<>> /\ \A i \in 1..Len(rcvd) : rcvd[i] = Timeout

\* C5: a download in which every receive after the RRQ timed out has sent
\* the RRQ at most 3 times, and once it has ended it has sent the RRQ
\* exactly 3 times to the well-known address and nothing else, the outcome
\* is ServerUnresponsive with exit status 1, and the destination file no
\* longer exists.
C5_UnansweredRrqFails ==
    (operation = "get" /\ OnlyTimeouts) =>
        /\ Len(sent) <= 3
        /\ \A i \in 1..Len(sent) :
               /\ sent[i].pkt = <<0, 1, 102, 0, 111, 99, 116, 101, 116, 0>>
               /\ sent[i].to = WellKnownAddress
        /\ SentWithOpcode(4) = <<>>
        /\ Len(rcvd) <= 3
        /\ Len(rcvd) = 3 <=> Exited
        /\ Exited =>
               /\ Len(sent) = 3
               /\ GetServerUnresponsive /\ exit_code = 1
               /\ ~file_exists /\ ~file_open

C5_Witness ==
    /\ GetServerUnresponsive /\ OnlyTimeouts /\ Len(sent) = 3
    /\ ~file_exists

\* the script is about to look at an ERROR datagram of the download
ProcessingError ==
    /\ operation = "get" /\ pc = "process"
    /\ Len(data) >= 2 /\ data[1] = 0 /\ data[2] = 5

\* the download failed on an ERROR datagram
GetFailedOnError ==
    /\ operation = "get" /\ Exited /\ exit_code = 1
    /\ Len(data) >= 2 /\ data[1] = 0 /\ data[2] = 5

\* C6: in a download, processing an ERROR datagram, first reply or not,
\* ends the transfer as failed (exit status 1) reporting the received
\* error code, with the destination file closed and removed and no ACK
\* sent; after that the client neither sends nor receives anything.
C6_ErrorEndsDownload ==
    [][/\ ProcessingError =>
              /\ Exited' /\ exit_code' = 1
              /\ printed' = Append(printed,
                                   [msg |-> ErrorText(WireBlock(data)),
                                    arg |-> WireBlock(data)])
              /\ ~file_exists' /\ ~file_open'
              /\ sent' = sent /\ rcvd' = rcvd
       /\ GetFailedOnError => (sent' = sent /\ rcvd' = rcvd)]_vars

\* ERROR 1 came after block 1 had been accepted and acknowledged
C6_Witness ==
    /\ GetFailedOnError /\ ~file_exists
    /\ expected_block = 2 /\ Len(rcvd) = 2
    /\ printed[Len(printed)] = [msg |-> "File not found.", arg |-> 1]

\* C7 as claimed: in every terminal state of a transfer that has sent its
\* request, the UDP socket and the local file are both closed.
C7_AsClaimed ==
    (Exited /\ sent # <<>>) => (~sock_open /\ ~file_open)

\* C8: in the data loop of a download one receive timeout ends the
\* transfer at once as TimedOutMidTransfer, never as Done: nothing is sent
\* again, no retry is counted, the file is closed and kept with the bytes
\* written so far, and the exit status is 0.
C8_TimeoutEndsDownloadKeepingFile ==
    [][/\ (operation = "get" /\ pc = "recv_next"
               /\ rcvd' = Append(rcvd, Timeout)) =>
              /\ GetTimedOutMidTransfer'
              /\ sent' = sent /\ try_count' = try_count
              /\ file_exists' /\ file_bytes' = file_bytes /\ ~file_open'
              /\ exit_code' = 0
       /\ ~(GetDone' /\ GetTimedOutMidTransfer')]_vars

\* the download timed out after one full block had been written
C8_Witness ==
    /\ GetTimedOutMidTransfer /\ ~GetDone
    /\ file_exists /\ Len(file_bytes) = 512
    /\ expected_block = 2

\* C9 as claimed: for every block number b in 0..65535, send_ack and
\* send_data succeed and bytes 2..3 of the packet sent read back, as an
\* unsigned big-endian 16-bit number, as b.
C9_AsClaimed ==
    (pc = "raised" \/ (pc = "returned" /\ sent[1].pkt[2] \in {3, 4})) =>
        /\ pc = "returned"
        /\ Len(sent) = 1
        /\ BlockOf(sent[1].pkt) = block_number

\* C10 as claimed: for every file name and mode, the packet send_rrq or
\* send_wrq sends is opcode | all file name bytes | 0 | all mode bytes | 0.
C10_AsClaimed ==
    (pc = "returned" /\ sent[1].pkt[2] \in {1, 2}) =>
        sent[1].pkt =
            <<0, sent[1].pkt[2]>>
                \o Utf8(filename) \o <<0>> \o Utf8(mode) \o <<0>>

\* the script waits in sock.recvfrom for the answer to what it just sent
PutWaiting == pc \in {"wrq_wait", "data_wait"}

IsDataPacket(p) == Len(p) >= 4 /\ p[1] = 0 /\ p[2] = 3
IsWrqPacket(p) == Len(p) >= 2 /\ p[1] = 0 /\ p[2] = 2

\* block numbers sent as DATA and not acknowledged by the answer to any
\* of their transmissions
Unacknowledged ==
    {WireBlock(sent[i].pkt) : i \in {j \in 1..Len(sent) :
                                         IsDataPacket(sent[j].pkt)}}
      \ {WireBlock(sent[i].pkt) :
             i \in {j \in 1..Len(rcvd) :
                        /\ IsDataPacket(sent[j].pkt)
                        /\ IsAck(rcvd[j], WireBlock(sent[j].pkt))}}

\* C11: an upload is stop-and-wait.  Sends and receives alternate (the
\* i-th receive answers the i-th datagram sent); at most one DATA block
\* number is sent and unacknowledged; and a DATA packet is either the
\* packet sent just before it again, or DATA 1 sent right after ACK 0
\* answered the WRQ, or DATA n+1 sent right after an ACK with block
\* number n answered DATA n.
C11_UploadStopAndWait ==
    operation = "put" =>
        /\ Len(sent) - Len(rcvd) = IF PutWaiting THEN 1 ELSE 0
        /\ Cardinality(Unacknowledged) <= 1
        /\ \A i \in 1..Len(sent) :
               IsDataPacket(sent[i].pkt) =>
                   LET b == WireBlock(sent[i].pkt) IN
                   /\ i > 1
                   /\ \/ sent[i - 1].pkt = sent[i].pkt
                      \/ /\ b = 1 /\ IsWrqPacket(sent[i - 1].pkt)
                         /\ IsAck(rcvd[i - 1], 0)
                      \/ /\ b > 1 /\ IsDataPacket(sent[i - 1].pkt)
                         /\ WireBlock(sent[i - 1].pkt) = b - 1
                         /\ IsAck(rcvd[i - 1], b - 1)

\* DATA 2 is in flight after DATA 1 was sent twice and then acknowledged
C11_Witness ==
    /\ operation = "put" /\ pc = "data_wait" /\ block_number = 2
    /\ Len(sent) = 4 /\ WireBlock(sent[4].pkt) = 2
    /\ sent[2].pkt = sent[3].pkt /\ IsAck(rcvd[3], 1)
    /\ Unacknowledged = {2}

\* the upload gave up on a block
PutTransferAborted ==
    /\ operation = "put" /\ Exited
    /\ Printed("Transfer failed: Max retries exceeded.")

\* how many times DATA b is among the datagrams of log
TimesIn(log, b) ==
    Cardinality({i \in 1..Len(log) :
                     IsDataPacket(log[i].pkt) /\ WireBlock(log[i].pkt) = b})

TimesSent(b) == TimesIn(sent, b)

\* d is a timeout or an ACK for another block than b
IsMiss(d, b) ==
    d = Timeout \/ (Len(d) >= 2 /\ d[1] = 0 /\ d[2] = 4 /\ ~IsAck(d, b))

\* C12: in the data loop of an upload only an ACK whose block number is
\* the current block advances the block counter, and then by one; an ACK
\* for another block, or a timeout, uses up one of the 3 attempts and
\* either the identical DATA is sent again or, at the third miss, the
\* transfer ends as failed (Max retries exceeded) with nothing more sent;
\* no block is sent more than 3 times, no block after the current one is
\* ever sent, and the source file is never changed.
C12_OnlyMatchingAckAdvances ==
    [][operation = "put" =>
         /\ (pc = "data_wait" /\ block_number' # block_number) =>
                /\ IsAck(rcvd'[Len(rcvd')], block_number)
                /\ block_number' = block_number + 1
         /\ (pc = "data_wait" /\ Len(rcvd') = Len(rcvd) + 1
                 /\ IsMiss(rcvd'[Len(rcvd')], block_number)) =>
                /\ block_number' = block_number
                /\ file_block' = file_block /\ sent' = sent
                /\ IF try_count + 1 < MAX_TRY
                   THEN pc' = "data_send" /\ try_count' = try_count + 1
                   ELSE /\ PutTransferAborted'
                        /\ TimesSent(block_number) = MAX_TRY
         /\ pc = "data_send" =>
                sent' = Append(sent,
                               [pkt |-> WireData(block_number, file_block),
                                to |-> server_address])
         /\ \A i \in 1..Len(sent') :
                IsDataPacket(sent'[i].pkt) =>
                    /\ TimesIn(sent', WireBlock(sent'[i].pkt)) <= MAX_TRY
                    /\ WireBlock(sent'[i].pkt) <= block_number'
         /\ file_bytes' = file_bytes /\ file_exists' = file_exists]_vars

\* block 1 was sent three times and answered by ACK 2, a timeout and
\* another datagram that is not ACK 1; the upload was given up
C12_Witness ==
    /\ PutTransferAborted /\ block_number = 1 /\ TimesSent(1) = MAX_TRY
    /\ Len(rcvd) = 4 /\ IsAck(rcvd[1], 0) /\ IsAck(rcvd[2], 2)
    /\ rcvd[3] = Timeout
    /\ file_exists /\ Len(file_bytes) = 513

\* the upload ended in the WRQ loop without the server's ACK 0
PutServerUnresponsive ==
    /\ operation = "put" /\ Exited /\ exit_code = 1
    /\ Printed("Error: Server not responding or Protocol Error.")

WrqSent == [i \in 1..Len(SentWithOpcode(2)) |-> SentWithOpcode(2)[i].pkt]

\* some WRQ was answered by ACK 0
Ack0Received ==
    \E i \in 1..Len(rcvd) : IsWrqPacket(sent[i].pkt) /\ IsAck(rcvd[i], 0)

IsError(d) == Len(d) >= 2 /\ d[1] = 0 /\ d[2] = 5

\* C13: while an upload waits for the answer to its WRQ, a DATA packet is
\* sent only after an ACK with block number 0 answered a WRQ; an ERROR
\* reply ends the transfer at once with exit status 1 and nothing more
\* sent; any other reply, and a timeout, uses up one of the 3 attempts
\* and the same WRQ is sent again; after the third attempt without ACK 0
\* the transfer ends as server unresponsive and no DATA was ever sent.
C13_HandshakeNeedsAck0 ==
    [][operation = "put" =>
         /\ (Len(sent') = Len(sent) + 1
                 /\ IsDataPacket(sent'[Len(sent')].pkt)) => Ack0Received
         /\ (pc = "wrq_wait" /\ Len(rcvd') = Len(rcvd) + 1) =>
                LET d == rcvd'[Len(rcvd')] IN
                /\ sent' = sent /\ DataSent = <<>>
                /\ IF IsAck(d, 0)
                       THEN pc' = "read_block" /\ block_number' = 1
                   ELSE IF IsError(d)
                       THEN Exited' /\ exit_code' = 1
                                /\ ~PutServerUnresponsive'
                   ELSE IF try_count + 1 < MAX_TRY
                       THEN pc' = "wrq_send" /\ try_count' = try_count + 1
                   ELSE PutServerUnresponsive' /\ Len(WrqSent) = MAX_TRY
         /\ pc = "wrq_send" =>
                /\ sent' = Append(sent,
                                  [pkt |-> WrqPacket(filename, mode).bytes,
                                   to |-> server_address])
                /\ Len(sent) > 0 => sent'[Len(sent')].pkt = sent[Len(sent)].pkt
         /\ Len(WrqSent)' <= MAX_TRY]_vars

\* three WRQs were answered by ACK 1, a timeout and a DATA datagram: the
\* upload ended as server unresponsive without sending DATA
C13_Witness ==
    /\ PutServerUnresponsive /\ Len(WrqSent) = MAX_TRY /\ DataSent = <<>>
    /\ Len(rcvd) = 3 /\ IsAck(rcvd[1], 1) /\ rcvd[2] = Timeout
    /\ IsData(rcvd[3], 1)

\* C14: the peer address changes at most once in a transfer: it is set to
\* the source of the first datagram received after the request and never
\* changes again, whatever arrives later.
C14_AsClaimed ==
    [][/\ server_address' # server_address => reply_from = NoAddress
       /\ reply_from' # NoAddress => server_address' = reply_from']_vars

\* how many receives it took to get the first datagram (0: none yet)
FirstReplyAt ==
    IF \A i \in 1..Len(rcvd) : rcvd[i] = Timeout THEN 0
    ELSE CHOOSE i \in 1..Len(rcvd) :
             rcvd[i] # Timeout /\ \A j \in 1..(i - 1) : rcvd[j] = Timeout

\* C15: every datagram sent after the first reply to the request was
\* received goes to the source address of that first reply.
C15_AsClaimed ==
    FirstReplyAt > 0 =>
        \A i \in 1..Len(sent) : i > FirstReplyAt => sent[i].to = reply_from

\* the download is looking at a datagram that is neither DATA nor ERROR
ProcessingOther ==
    /\ operation = "get" /\ pc = "process"
    /\ OpcodeOf(data) \notin {OPCODE.DATA, OPCODE.ERROR}

\* C16: in a download a received datagram whose opcode is neither DATA
\* nor ERROR ends the transfer with a reported failure; it is not skipped
\* to wait for the next datagram.
C16_AsClaimed ==
    [][ProcessingOther =>
           /\ Exited' /\ exit_code' # 0
           /\ Len(printed') > Len(printed)]_vars

\* the script died of the struct.error raised by pack('>hh', ...)
Crashed == Exited /\ Printed("Traceback: struct.error")

\* C17: the block counters are 16-bit values and a transfer whose block
\* numbers go past 32767 never crashes: the ACK for a received DATA with
\* such a block number is encoded with that number and sent.
C17_AsClaimed ==
    [][/\ expected_block' \in 0..65535 /\ block_number' \in 0..65535
       /\ ~Crashed'
       /\ (operation = "get" /\ pc = "process"
               /\ OpcodeOf(data) = OPCODE.DATA /\ BlockOf(data) > 32767) =>
              /\ Len(sent') = Len(sent) + 1
              /\ sent'[Len(sent')].pkt[2] = 4
              /\ BlockOf(sent'[Len(sent')].pkt) = BlockOf(data)]_vars

\* the blocks a download has written to the file so far
BlocksAccepted == expected_block - 1

\* C18: a download acknowledges only blocks it has stored: every ACK(b)
\* sent has b at most the number of blocks accepted so far.
C18_AsClaimed ==
    operation = "get" =>
        \A i \in 1..Len(sent) :
            (sent[i].pkt[1] = 0 /\ sent[i].pkt[2] = 4) =>
                BlockOf(sent[i].pkt) <= BlocksAccepted

(***************************************************************************)
(* The script is one sequential process: it always takes its next step,    *)
(* and with the socket timeout set every recvfrom returns a datagram or    *)
(* raises socket.timeout.                                                  *)
(***************************************************************************)
FairSpec == Spec /\ WF_vars(Next)

\* B: the blocks an upload of the source has to send
UploadBlocks == Len(BlocksOf(file_bytes))

\* C19: every upload ends, whatever the server sends: the WRQ is sent at
\* most 3 times and each of the B = floor(N/512) + 1 blocks at most 3
\* times, no other block is sent, and the script exits after at most
\* 3 * (1 + B) receives.
C19_UploadTerminates ==
    /\ [](operation = "put" =>
            /\ Len(WrqSent) <= MAX_TRY
            /\ \A i \in 1..Len(sent) :
                   IsDataPacket(sent[i].pkt) =>
                       /\ WireBlock(sent[i].pkt) \in 1..UploadBlocks
                       /\ TimesSent(WireBlock(sent[i].pkt)) <= MAX_TRY
            /\ Len(rcvd) <= MAX_TRY * (1 + UploadBlocks))
    /\ (operation = "put") ~> Exited

\* an upload of 512 bytes (B = 2) that ended after exactly 9 receives
C19_Witness ==
    /\ operation = "put" /\ Exited /\ Len(file_bytes) = 512
    /\ UploadBlocks = 2 /\ Len(rcvd) = MAX_TRY * (1 + UploadBlocks)
    /\ Len(WrqSent) = MAX_TRY /\ TimesSent(1) = MAX_TRY
    /\ TimesSent(2) = MAX_TRY

\* the script is in the block loop of its transfer
InBlockLoop ==
    pc \in {"process", "recv_next", "read_block", "data_send", "data_wait"}

====
